---- MODULE Spec2Model ----
(***************************************************************************)
(* The document-to-answer pipeline of the RFI assistant.                   *)
(*                                                                         *)
(*   server/routes.ts                 processDocument (the per-document    *)
(*                                    run), the upload and delete routes,  *)
(*                                    the processingStatus map             *)
(*   server/services/documentProcessor.ts                                  *)
(*                                    DocumentProcessor.processDocument    *)
(*                                    (temp file, loader, vector store)    *)
(*                                    and extractQuestions (oracle call,   *)
(*                                    JSON.parse, record filter)           *)
(*   db/schema.ts                     documents and questions tables       *)
(*   server/routes.ts                 the upload intake (multer), the      *)
(*                                    status query, the context library    *)
(*                                    (POST and DELETE /api/contexts)      *)
(*   server/services/embeddings.ts    EmbeddingsService: the stores and    *)
(*                                    deleteContextEmbeddings              *)
(*   unnamed/part_009                 the two embedding tables             *)
(*                                                                         *)
(* Node runs one task at a time: everything between two awaits is one      *)
(* atomic step.  Each action below is one such segment of a run, named by  *)
(* the await it resumes from.  The await of fs.mkdir (recursive, on a      *)
(* fixed directory) changes nothing any run can see and is folded into the *)
(* segment before it.                                                      *)
(***************************************************************************)
EXTENDS Integers, Sequences, FiniteSets, TLC

\* ---------------------------------------------------------------- bounds
MaxChunks == 2      \* chunks of one document in SpecSingle
MaxFaults == 1      \* oracle / database calls that throw in one behaviour

\* Two documents, as in the isolation scenario: documents.id is a serial.
DocIds == {1, 2}

\* ------------------------------------------------- JSON values and records
\* A JSON field as the oracle wrote it.  t is what typeof gives after
\* JSON.parse ("string", "number", "object" for null), or "nan" for the bare
\* token NaN, which is not JSON.  Confidence is kept in hundredths.
Val(t, s, v) == [t |-> t, s |-> s, v |-> v]
Str(s) == Val("string", s, 0)
Num(v) == Val("number", "", v)
Null == Val("object", "", 0)
NaNTok == Val("nan", "", 0)

\* element is what the array holds at that place: an object with the
\* fields below, or the JSON value null
Rec(text, type, conf, answer, src) ==
    [element |-> "object", text |-> text, type |-> type, confidence |-> conf,
     answer |-> answer, sourceDocument |-> src]

RGood1 == Rec(Str("Q1"), Str("explicit"), Num(0), Str("A1"), Str("S1"))
RGood2 == Rec(Str("Q2"), Str("implicit"), Num(100), Str("A2"), Str("S2"))
RConfHigh == Rec(Str("Q3"), Str("explicit"), Num(101), Str("A3"), Str("S3"))
RConfNeg == Rec(Str("Q4"), Str("implicit"), Num(-1), Str("A4"), Str("S4"))
RConfStr == Rec(Str("Q5"), Str("explicit"), Str("0.9"), Str("A5"), Str("S5"))
RConfNaN == Rec(Str("Q6"), Str("explicit"), NaNTok, Str("A6"), Str("S6"))
RBadType == Rec(Str("Q7"), Str("requirement"), Num(50), Str("A7"), Str("S7"))
REmptyText == Rec(Str(""), Str("explicit"), Num(50), Str("A8"), Str("S8"))
RNullAnswer == Rec(Str("Q9"), Str("implicit"), Num(50), Null, Str("S9"))
REmptyAnswer == Rec(Str("Q10"), Str("explicit"), Num(50), Str(""), Str("S10"))
REmptySource == Rec(Str("Q11"), Str("implicit"), Num(50), Str("A11"), Str(""))
RNullElement == [Rec(Null, Null, Null, Null, Null) EXCEPT !.element = "null"]

\* ------------------------------------------------------ oracle responses
\* The raw text the chat model returns for a chunk: a JSON array, a JSON
\* array inside prose, plain prose, or a JSON object.
Resp(shape, recs) == [shape |-> shape, recs |-> recs]
\* marker is the boundary line the text of the chunk carries (<<>>: none);
\* text is doc.pageContent, one character standing for a run of words
Chunk(short, resp) ==
    [short |-> short, resp |-> resp, marker |-> <<>>,
     text |-> IF short THEN <<"a", "?">> ELSE <<"a", "?", "b", ".">>]

cMixed ==
    Chunk(FALSE, Resp("array", <<RGood1, RConfHigh, RConfNeg, RConfStr,
                                 RBadType, REmptyText, RNullAnswer, RGood2>>))
cEmptyFields == Chunk(FALSE, Resp("array", <<REmptyAnswer, REmptySource>>))
cNaN == Chunk(FALSE, Resp("array", <<RGood1, RConfNaN>>))
cWrapped == Chunk(FALSE, Resp("wrapped", <<RGood2>>))
cProse == Chunk(FALSE, Resp("prose", <<>>))
cObject == Chunk(FALSE, Resp("object", <<>>))
cShort == Chunk(TRUE, Resp("prose", <<>>))
cTwo == Chunk(FALSE, Resp("array", <<RGood1, RConfHigh, RGood2>>))
cNullElement == Chunk(FALSE, Resp("array", <<RGood1, RNullElement, RGood2>>))

ChunkSet ==
    {cMixed, cEmptyFields, cNaN, cWrapped, cProse, cObject, cShort,
     cNullElement}

SeqsUpTo(S, n) == UNION {[1..k -> S] : k \in 1..n}

\* ------------------------------------------------------------------ files
\* An uploaded file: its original name and its bytes.  The bytes are either
\* corrupt (the format library throws) or split into the given chunks.
\* mimetype is the declared media type, size is in megabytes.
TypedFile(name, mimetype, size, corrupt, chunks) ==
    [name |-> name, mimetype |-> mimetype, size |-> size,
     corrupt |-> corrupt, chunks |-> chunks, sheets |-> <<>>]

Pdf == "application/pdf"
Doc == "application/msword"
Docx ==
    "application/vnd.openxmlformats-officedocument.wordprocessingml.document"
Xls == "application/vnd.ms-excel"
Xlsx == "application/vnd.openxmlformats-officedocument.spreadsheetml.sheet"
Png == "image/png"

\* a Word file of one megabyte
File(name, corrupt, chunks) == TypedFile(name, Docx, 1, corrupt, chunks)
Bytes(f) ==
    [present |-> TRUE, corrupt |-> f.corrupt, chunks |-> f.chunks,
     sheets |-> f.sheets]

FileNames == {"rfi.docx", "other.docx"}
NoFile ==
    [present |-> FALSE, corrupt |-> FALSE, chunks |-> <<>>, sheets |-> <<>>]

\* Files of the concurrent specification: two names, a corrupt payload and
\* a healthy one whose first chunk holds two valid records.
Files ==
    {File(n, TRUE, <<>>) : n \in FileNames} \cup
    {File(n, FALSE, <<cTwo, cProse>>) : n \in FileNames}

\* Files of the single-document specification: a corrupt payload and every
\* chunk sequence.
SingleFiles ==
    {File("rfi.docx", TRUE, <<>>)} \cup
    {File("rfi.docx", FALSE, cs) : cs \in SeqsUpTo(ChunkSet, MaxChunks)}


\* -------------------------------------------------------- upload intake
\* fileFilter and limits of the multer instance both upload routes share
AllowedTypes == {Pdf, Doc, Docx, Xls, Xlsx}
MaxFileSize == 10

AcceptsAnyType(f) == f.size <= MaxFileSize
Accepts(f) == f.mimetype \in AllowedTypes /\ f.size <= MaxFileSize

\* the cases of the switch of processor.processDocument
HasLoader(mimetype) == mimetype \in {Pdf, Docx, Doc, Xlsx, Xls}

\* Files the intake turns away: a picture, a Word file over the ceiling,
\* and a picture over the ceiling.
RejectedFiles ==
    {TypedFile("logo.png", Png, 1, FALSE, <<cTwo>>),
     TypedFile("big.docx", Docx, MaxFileSize + 1, FALSE, <<cTwo>>),
     TypedFile("big.png", Png, MaxFileSize + 1, FALSE, <<cTwo>>)}

\* every name a file of the model can have in the temp directory
\* Workbooks: each sheet has a name and the chunks its rows split into
MaxSheets == 2
Sheet(name, chunks) == [name |-> name, chunks |-> chunks]
SheetSet ==
    {Sheet("Pricing", <<cTwo>>), Sheet("Security", <<cMixed>>),
     Sheet("Terms", <<cShort>>)}
Workbook(sheets) ==
    [TypedFile("book.xlsx", Xlsx, 1, FALSE, <<>>) EXCEPT !.sheets = sheets]
Workbooks ==
    {Workbook(ss) : ss \in SeqsUpTo(SheetSet, MaxSheets)} \cup
    {[Workbook(<<Sheet("Pricing", <<cTwo>>)>>) EXCEPT !.corrupt = TRUE]}

\* case spreadsheetml.sheet / ms-excel of processDocument: the text is the
\* CSV of workbook.Sheets[workbook.SheetNames[0]], the first sheet alone,
\* with no line naming the sheet; every other type gives its own text
IsExcel(mimetype) == mimetype \in {Xlsx, Xls}
Extracted(mimetype, b) ==
    IF IsExcel(mimetype) /\ b.sheets # <<>>
    THEN b.sheets[1].chunks
    ELSE b.chunks

TempNames ==
    FileNames \cup {f.name : f \in RejectedFiles} \cup {"book.xlsx"}

\* ---------------------------------------------------------- status records
St(step, completed, progress, error) ==
    [currentStep |-> step, completedSteps |-> completed,
     progress |-> progress, error |-> error]

NoStatus == St("none", <<>>, 0, "")
StPreparation == St("preparation", <<>>, 0, "")
StExtraction == St("extraction", <<"preparation">>, 25, "")
StQuestions == St("questions", <<"preparation", "extraction">>, 50, "")
StAnalysis ==
    St("analysis", <<"preparation", "extraction", "questions">>, 75, "")
StComplete ==
    St("complete", <<"preparation", "extraction", "questions", "analysis">>,
       100, "")
StError(msg) == St("error", <<>>, 0, msg)

\* ------------------------------------------------------------ error values
ErrCorrupt == "Could not read the document"
ErrNoEntry == "ENOENT: no such file or directory"
ErrNoSpace == "ENOSPC: no space left on device"
ErrAuthRaw == "401 Incorrect API key provided"
ErrQuotaRaw == "429 You exceeded your current quota"
ErrDb == "connection terminated unexpectedly"
ErrForeignKey == "violates foreign key constraint"
ErrNoStore == "Documents must be processed before extracting questions"
ErrUnsupported == "Unsupported file type"
MsgAuth ==
    "OpenAI API authentication failed. Please check the API key configuration."
MsgQuota == "OpenAI API quota exceeded. Please check your usage limits."

\* error.message.includes("API key") / includes("quota")
MentionsApiKey(e) == e = ErrAuthRaw
MentionsQuota(e) == e = ErrQuotaRaw

ErrorMessage(e) ==
    IF MentionsApiKey(e) THEN MsgAuth
    ELSE IF MentionsQuota(e) THEN MsgQuota
    ELSE e

RejectError(k) == IF k = "auth" THEN ErrAuthRaw ELSE ErrQuotaRaw

\* ------------------------------------------------- parsing and validation
\* JSON.parse(responseText): throws on prose, on an array with prose around
\* it, and on any token that is not JSON (NaN).
JsonParses(resp) ==
    /\ resp.shape \in {"array", "object"}
    /\ \A i \in 1..Len(resp.recs) :
         \A fld \in {"text", "type", "confidence", "answer", "sourceDocument"} :
            resp.recs[i][fld].t # "nan"

IsArray(resp) == resp.shape = "array"

IsValidQuestionNoUpper(q) ==
    /\ q.text.t = "string" /\ q.text.s # ""
    /\ q.type.t = "string" /\ q.type.s \in {"explicit", "implicit"}
    /\ q.confidence.t = "number"
    /\ q.confidence.v >= 0
    /\ q.answer.t = "string"
    /\ q.sourceDocument.t = "string"

\* the filter of extractQuestions
IsValidQuestion(q) ==
    /\ q.text.t = "string" /\ q.text.s # ""
    /\ q.type.t = "string" /\ q.type.s \in {"explicit", "implicit"}
    /\ q.confidence.t = "number"
    /\ q.confidence.v >= 0 /\ q.confidence.v <= 100
    /\ q.answer.t = "string"
    /\ q.sourceDocument.t = "string"

FilterValid(recs) == SelectSeq(recs, IsValidQuestion)

\* q.text with q null: the callback of filter throws a TypeError, which
\* the catch (parseError) around the parse and the filter takes
FilterThrows(recs) == \E i \in 1..Len(recs) : recs[i].element = "null"

\* what one chunk adds to questions once the oracle has answered
ChunkQuestions(resp) ==
    IF JsonParses(resp) /\ IsArray(resp) /\ ~FilterThrows(resp.recs)
    THEN FilterValid(resp.recs)
    ELSE <<>>

\* text.length < 10 after trim: the chunk is skipped without an oracle call
NeedsCall(c) == ~c.short

\* the loop of extractQuestions from index i: the next chunk it calls the
\* oracle for, or Len + 1 when the loop ends
RECURSIVE NextCall(_, _)
NextCall(chunks, i) ==
    IF i > Len(chunks) THEN Len(chunks) + 1
    ELSE IF NeedsCall(chunks[i]) THEN i
    ELSE NextCall(chunks, i + 1)

AfterChunkBreak(chunks, i) == Len(chunks) + 1

\* catch (chunkError) { ...; continue; }
AfterChunkError(chunks, i) == NextCall(chunks, i + 1)

\* ------------------------------------------------------- context library
\* Text is a sequence of one-character strings.
CtxIds == {1, 2}

IsDelimiter(c) == c \in {".", "!", "?"}

\* content.split(/[.!?]+/): the pieces between maximal runs of delimiters,
\* the empty pieces before a leading and after a trailing run included
RECURSIVE SplitFrom(_, _, _, _, _)
SplitFrom(s, i, cur, inRun, acc) ==
    IF i > Len(s) THEN Append(acc, cur)
    ELSE IF IsDelimiter(s[i])
    THEN IF inRun THEN SplitFrom(s, i + 1, cur, TRUE, acc)
         ELSE SplitFrom(s, i + 1, <<>>, TRUE, Append(acc, cur))
    ELSE SplitFrom(s, i + 1, Append(cur, s[i]), FALSE, acc)

SplitSentences(s) == SplitFrom(s, 1, <<>>, FALSE, <<>>)

\* .filter(Boolean): the empty string is the only falsy string
Truthy(u) == u # <<>>

\* s.trim()
IsSpace(c) == c \in {" ", "\n"}
RECURSIVE Trim(_)
Trim(u) ==
    IF u = <<>> THEN u
    ELSE IF IsSpace(u[1]) THEN Trim(Tail(u))
    ELSE IF IsSpace(u[Len(u)]) THEN Trim(SubSeq(u, 1, Len(u) - 1))
    ELSE u

MapTrim(us) == [k \in 1..Len(us) |-> Trim(us[k])]

\* s.endsWith('?')
EndsWithQuestionMark(u) == u # <<>> /\ u[Len(u)] = "?"

\* const sentences = content.split(/[.!?]+/).filter(Boolean).map(s => s.trim())
Sentences(content) == MapTrim(SelectSeq(SplitSentences(content), Truthy))

Tagged(table, us) == [k \in 1..Len(us) |-> [table |-> table, text |-> us[k]]]

\* the stores POST /api/contexts issues, in order: the question loop, then
\* the answer loop
IngestWork(content) ==
    Tagged("question", SelectSeq(Sentences(content), EndsWithQuestionMark)) \o
    Tagged("answer",
           SelectSeq(Sentences(content), LAMBDA u : ~EndsWithQuestionMark(u)))

\* Contents posted to the library: "a?b.", "a. b", "a?", "ab" and "a. ".
Contents ==
    {<<"a", "?", "b", ".">>, <<"a", ".", " ", "b">>, <<"a", "?">>,
     <<"a", "b">>, <<"a", ".", " ">>}

EmbeddingRow(id, text) == [contextId |-> id, text |-> text]

\* where(eq(table.contextId, contextId))
OwnedByAny(row, id) == TRUE
OwnedBy(row, id) == row.contextId = id

DeleteOwned(rows, id) == SelectSeq(rows, LAMBDA r : ~OwnedBy(r, id))

\* ------------------------------------------------------------------ state
VARIABLES
    documents,         \* documents table: id -> row
    questionRows,      \* questions table, in id order
    processingStatus,  \* the processingStatus map
    tempFiles,         \* temp directory: name -> bytes
    vectorStore,       \* processor.vectorStore: 0 (null) or the run that set it
    nextDocId,         \* serial of documents.id
    pc,                \* where each run is suspended
    file,              \* the file of each run
    splitDocs,         \* chunks returned by processor.processDocument
    ci,                \* index of the chunk whose oracle call is in flight
    questions,         \* questions accumulated by extractQuestions
    pending,           \* inserts of the save step still in flight
    thrown,            \* error travelling through finally
    faults,            \* calls that have thrown so far
    statusLog,         \* history: every status written to the map, per document
    faultsSeen,        \* history: kinds of thrown calls, per run
    callOk,            \* history: chunks whose oracle call returned, per run
    callThrew,         \* history: chunks whose oracle call threw, per run
    apiKey,            \* process.env.OPENAI_API_KEY is set
    rejected,          \* history: files the upload intake turned away
    query,             \* the status query in flight and its response
    contexts,          \* contexts table: id -> row
    nextCtxId,         \* serial of contexts.id
    questionEmbeddings,  \* question_embeddings table, in id order
    answerEmbeddings,  \* answer_embeddings table, in id order
    ingest,            \* where the POST /api/contexts of each entry is
    deleting,          \* where the DELETE /api/contexts/:id of each entry is
    started,           \* history: runs started per document id
    reply,             \* the answer to the last delete of a missing id
    search,            \* the similarity search in flight and its results
    ctxUpload          \* the POST /api/contexts/upload in flight

ctxVars == <<contexts, nextCtxId, questionEmbeddings, answerEmbeddings,
             ingest, deleting>>

\* what the runs of the documents leave alone
otherVars ==
    <<apiKey, started, reply, search, ctxUpload, rejected, query, ctxVars>>

\* the state of the documents and their runs, but for the count of faults
runVars == <<documents, questionRows, processingStatus, tempFiles,
             vectorStore, nextDocId, pc, file, splitDocs, ci, questions,
             pending, thrown, statusLog, faultsSeen, callOk, callThrew>>

vars == <<runVars, faults, otherVars>>

NoDoc == [exists |-> FALSE, status |-> "none", error |-> ""]
NoRun == File("", TRUE, <<>>)

NoContext == [exists |-> FALSE, content |-> <<>>, type |-> ""]
NoIngest == [pc |-> "idle", todo |-> <<>>]
NoReply == [op |-> "none", id |-> 0, code |-> 0]
NoSearch == [stage |-> "none", type |-> "", limit |-> 0, query |-> <<>>,
             questions |-> <<>>, answers |-> <<>>, code |-> 0]
NoUpload == [pc |-> "idle", file |-> NoRun, docs |-> <<>>, thrown |-> ""]
NoQuery == [stage |-> "none", id |-> 0, row |-> NoDoc, mapped |-> NoStatus,
            code |-> 0, body |-> NoStatus]

\* The module of routes.ts is loaded: the processor is constructed, the map
\* is empty, no request has come in.  The tables are those of a new
\* database.
InitProcess ==
    /\ apiKey \in BOOLEAN
    /\ started = [d \in DocIds |-> 0]
    /\ reply = NoReply
    /\ search = NoSearch
    /\ ctxUpload = NoUpload
    /\ rejected = {}
    /\ query = NoQuery
    /\ contexts = [c \in CtxIds |-> NoContext]
    /\ nextCtxId = 1
    /\ questionEmbeddings = <<>>
    /\ answerEmbeddings = <<>>
    /\ ingest = [c \in CtxIds |-> NoIngest]
    /\ deleting = [c \in CtxIds |-> "idle"]
    /\ questionRows = <<>>
    /\ processingStatus = [d \in DocIds |-> NoStatus]
    /\ tempFiles = [n \in TempNames |-> NoFile]
    /\ vectorStore = 0
    /\ pc = [d \in DocIds |-> "idle"]
    /\ file = [d \in DocIds |-> NoRun]
    /\ splitDocs = [d \in DocIds |-> <<>>]
    /\ ci = [d \in DocIds |-> 0]
    /\ questions = [d \in DocIds |-> <<>>]
    /\ pending = [d \in DocIds |-> {}]
    /\ thrown = [d \in DocIds |-> ""]
    /\ faults = 0
    /\ statusLog = [d \in DocIds |-> <<>>]
    /\ faultsSeen = [d \in DocIds |-> {}]
    /\ callOk = [d \in DocIds |-> {}]
    /\ callThrew = [d \in DocIds |-> {}]

Init ==
    /\ InitProcess
    /\ documents = [d \in DocIds |-> NoDoc]
    /\ nextDocId = 1

\* processingStatus.set(documentId, s) for each s of sts, in order
SetStatusGlobal(d, sts) ==
    /\ processingStatus' =
         [e \in DocIds |->
             IF sts = <<>> THEN processingStatus[e] ELSE sts[Len(sts)]]
    /\ statusLog' = [statusLog EXCEPT ![d] = @ \o sts]
SetStatus(d, sts) ==
    /\ processingStatus' =
         [processingStatus EXCEPT ![d] = IF sts = <<>> THEN @ ELSE sts[Len(sts)]]
    /\ statusLog' = [statusLog EXCEPT ![d] = @ \o sts]

\* new DocumentProcessor() at the top of routes.ts throws without the key, so
\* the module does not load and registerRoutes is never reached
ConstructsWithoutKey(key) == TRUE
Constructs(key) == key
Registered == Constructs(apiKey)

CanFault == faults < MaxFaults
Fault(d, kind) ==
    /\ faults' = faults + 1
    /\ faultsSeen' = [faultsSeen EXCEPT ![d] = @ \cup {kind}]


\* ----------------------------------------------------------- status query
\* const defaultStatus = {...} of GET /api/processing/status
DefaultStatusNoMessage(row) ==
    St(IF row.status = "error" THEN "error"
       ELSE IF row.status = "processed" THEN "complete" ELSE "preparation",
       IF row.status = "processed"
       THEN <<"preparation", "extraction", "questions", "analysis">> ELSE <<>>,
       IF row.status = "error" THEN 0
       ELSE IF row.status = "processed" THEN 100 ELSE 25,
       IF row.status = "error" THEN "Unknown error occurred" ELSE "")

DefaultStatus(row) ==
    St(IF row.status = "error" THEN "error"
       ELSE IF row.status = "processed" THEN "complete" ELSE "preparation",
       IF row.status = "processed"
       THEN <<"preparation", "extraction", "questions", "analysis">> ELSE <<>>,
       IF row.status = "error" THEN 0
       ELSE IF row.status = "processed" THEN 100 ELSE 25,
       IF row.status = "error"
       THEN (IF row.error # "" THEN row.error ELSE "Unknown error occurred")
       ELSE "")

\* the request carries no usable documentId: the fixed answer, no lookup
QueryNoId ==
    /\ Registered
    /\ query.stage \in {"none", "answered"}
    /\ query' = [NoQuery EXCEPT !.stage = "answered", !.code = 200,
                                !.body = St("preparation", <<>>, 0, "")]
    /\ UNCHANGED <<runVars, faults, apiKey, started, reply, search, ctxUpload, rejected, ctxVars>>

\* await db.select().from(documents).where(eq(documents.id, documentId))
QuerySelect(d) ==
    /\ Registered
    /\ query.stage \in {"none", "answered"}
    /\ query' = [NoQuery EXCEPT !.stage = "selected", !.id = d,
                                !.row = documents[d]]
    /\ UNCHANGED <<runVars, faults, apiKey, started, reply, search, ctxUpload, rejected, ctxVars>>

\* the select comes back: 404 without a row, else the status of the map, or
\* the default status when the map has none
QueryRespond ==
    /\ query.stage = "selected"
    /\ LET st == processingStatus[query.id] IN
       query' = IF ~query.row.exists
                THEN [query EXCEPT !.stage = "answered", !.code = 404]
                ELSE [query EXCEPT !.stage = "answered", !.code = 200,
                                   !.mapped = st,
                                   !.body = IF st = NoStatus
                                            THEN DefaultStatus(query.row)
                                            ELSE st]
    /\ UNCHANGED <<runVars, faults, apiKey, started, reply, search, ctxUpload, rejected, ctxVars>>

\* ------------------------------------------------ segments of one run
\* catch (error) of processDocument in routes.ts: the message is computed,
\* the error status is written and the durable update is issued.
\* finally { await fs.unlink(tempFilePath).catch(...) }: runs whether the
\* try returned or threw err; an unlink of a path that is gone is swallowed
AfterFinallyOnReturn(files, name, err) ==
    IF err = "" THEN [files EXCEPT ![name] = NoFile] ELSE files
AfterFinally(files, name, err) == [files EXCEPT ![name] = NoFile]

Catch(d, err, pre) ==
    /\ SetStatus(d, pre \o <<StError(ErrorMessage(err))>>)
    /\ pc' = [pc EXCEPT ![d] = "errflip"]
    /\ thrown' = [thrown EXCEPT ![d] = err]

\* Promise.all over the inserts resolves once none is left in flight
AllSettledNoAwait(p) == TRUE
AllSettled(p) == p = {}

\* extractQuestions goes on from chunk index i with qs accumulated; when the
\* loop ends it returns, the analysis status is written and every insert of
\* the save step is issued.
Continue(d, i, qs, pre) ==
    /\ ci' = [ci EXCEPT ![d] = i]
    /\ questions' = [questions EXCEPT ![d] = qs]
    /\ thrown' = thrown
    /\ splitDocs' = splitDocs
    /\ IF i <= Len(splitDocs[d])
       THEN /\ pc' = [pc EXCEPT ![d] = "invoke"]
            /\ pending' = pending
            /\ SetStatus(d, pre)
       ELSE /\ pending' = [pending EXCEPT ![d] = 1..Len(qs)]
            /\ pc' = [pc EXCEPT ![d] =
                        IF AllSettled(1..Len(qs)) THEN "flip" ELSE "save"]
            /\ SetStatus(d, pre \o <<StAnalysis>>)

\* id: serial("id").primaryKey(): the row gets the next value of the sequence
NextIdReused(d) == d
NextId(d) == d + 1

\* POST /api/documents/upload for one file: the row is inserted, the run is
\* started and runs to its first await: the status is written three times
\* and processor.processDocument suspends before writing the temp file.
Upload(f) ==
    /\ Registered
    /\ Accepts(f)
    /\ nextDocId \in DocIds
    /\ LET d == nextDocId IN
       /\ documents' = [documents EXCEPT ![d] =
              [exists |-> TRUE, status |-> "processing", error |-> ""]]
       /\ nextDocId' = NextId(d)
       /\ file' = [file EXCEPT ![d] = f]
       /\ pc' = [pc EXCEPT ![d] = "write"]
       /\ SetStatus(d, <<StPreparation, StPreparation, StExtraction>>)
    /\ UNCHANGED <<questionRows, tempFiles, vectorStore, splitDocs, ci,
                   questions, pending, thrown, faults, faultsSeen, callOk, callThrew>>
    /\ started' = [started EXCEPT ![nextDocId] = @ + 1]
    /\ UNCHANGED <<apiKey, reply, search, ctxUpload, rejected, query, ctxVars>>

\* The same route for a file multer turns away: the fileFilter leaves it out
\* of req.files, a file over the size limit ends the request with an error.
\* No row is inserted and processDocument is not called for it.
UploadRejected(f) ==
    /\ Registered
    /\ ~Accepts(f)
    /\ rejected' = rejected \cup {f}
    /\ UNCHANGED <<runVars, faults, apiKey, started, reply, search, ctxUpload, query, ctxVars>>

\* await fs.writeFile(tempFilePath, file.buffer)
WriteFile(d) ==
    /\ pc[d] = "write"
    /\ tempFiles' = [tempFiles EXCEPT ![file[d].name] = Bytes(file[d])]
    /\ pc' = [pc EXCEPT ![d] = "load"]
    /\ UNCHANGED <<documents, questionRows, processingStatus, vectorStore,
                   nextDocId, file, splitDocs, ci, questions, pending, thrown,
                   faults, statusLog, faultsSeen, callOk, callThrew>>
    /\ UNCHANGED otherVars

\* switch (file.mimetype): a media type with no case throws; otherwise the
\* format library reads the temp file (mammoth, PDFLoader, fs.readFile +
\* XLSX.read) and the text splitter cuts the text; a missing or corrupt file
\* throws.  Every throw goes through finally.
Load(d) ==
    /\ pc[d] = "load"
    /\ LET b == tempFiles[file[d].name] IN
       IF ~HasLoader(file[d].mimetype)
       THEN /\ thrown' = [thrown EXCEPT ![d] = ErrUnsupported]
            /\ pc' = [pc EXCEPT ![d] = "unlink"]
            /\ splitDocs' = splitDocs
       ELSE IF ~b.present
       THEN /\ thrown' = [thrown EXCEPT ![d] = ErrNoEntry]
            /\ pc' = [pc EXCEPT ![d] = "unlink"]
            /\ splitDocs' = splitDocs
       ELSE IF b.corrupt
       THEN /\ thrown' = [thrown EXCEPT ![d] = ErrCorrupt]
            /\ pc' = [pc EXCEPT ![d] = "unlink"]
            /\ splitDocs' = splitDocs
       ELSE /\ splitDocs' = [splitDocs EXCEPT
                               ![d] = Extracted(file[d].mimetype, b)]
            /\ pc' = [pc EXCEPT ![d] = "embed"]
            /\ thrown' = thrown
    /\ UNCHANGED <<documents, questionRows, processingStatus, tempFiles,
                   vectorStore, nextDocId, file, ci, questions, pending,
                   faults, statusLog, faultsSeen, callOk, callThrew>>
    /\ UNCHANGED otherVars

\* this.vectorStore = await MemoryVectorStore.fromDocuments(splitDocs, ...)
Embed(d) ==
    /\ pc[d] = "embed"
    /\ vectorStore' = d
    /\ pc' = [pc EXCEPT ![d] = "unlink"]
    /\ UNCHANGED <<documents, questionRows, processingStatus, tempFiles,
                   nextDocId, file, splitDocs, ci, questions, pending, thrown,
                   faults, statusLog, faultsSeen, callOk, callThrew>>
    /\ UNCHANGED otherVars

\* the embedding oracle rejects the call (credential or quota)
\* fs.writeFile rejects: the error goes through the finally to the caller;
\* the path is left without a file or with the part that was written
PartialFile == [NoFile EXCEPT !.present = TRUE, !.corrupt = TRUE]
WriteFileThrow(d) ==
    /\ pc[d] = "write"
    /\ CanFault
    /\ \E b \in {tempFiles[file[d].name], PartialFile} :
          tempFiles' = [tempFiles EXCEPT ![file[d].name] = b]
    /\ thrown' = [thrown EXCEPT ![d] = ErrNoSpace]
    /\ Fault(d, "writeThrow")
    /\ pc' = [pc EXCEPT ![d] = "unlink"]
    /\ UNCHANGED <<documents, questionRows, processingStatus, vectorStore,
                   nextDocId, file, splitDocs, ci, questions, pending,
                   statusLog, callOk, callThrew>>
    /\ UNCHANGED otherVars

EmbedReject(d) ==
    /\ pc[d] = "embed"
    /\ CanFault
    /\ \E k \in {"auth", "quota"} :
          thrown' = [thrown EXCEPT ![d] = RejectError(k)]
    /\ Fault(d, "embedReject")
    /\ pc' = [pc EXCEPT ![d] = "unlink"]
    /\ UNCHANGED <<documents, questionRows, processingStatus, tempFiles,
                   vectorStore, nextDocId, file, splitDocs, ci, questions,
                   pending, statusLog, callOk, callThrew>>
    /\ UNCHANGED otherVars

\* finally { await fs.unlink(tempFilePath).catch(...) }, then either the
\* throw reaches the catch of the run, or the run writes the questions
\* status and extractQuestions runs to its first oracle call.
Unlink(d) ==
    /\ pc[d] = "unlink"
    /\ tempFiles' = AfterFinally(tempFiles, file[d].name, thrown[d])
    /\ IF thrown[d] # ""
       THEN /\ Catch(d, thrown[d], <<>>)
            /\ UNCHANGED <<splitDocs, ci, questions, pending>>
       ELSE IF vectorStore = 0
       THEN /\ Catch(d, ErrNoStore, <<StQuestions>>)
            /\ UNCHANGED <<splitDocs, ci, questions, pending>>
       ELSE Continue(d, NextCall(splitDocs[d], 1), <<>>, <<StQuestions>>)
    /\ UNCHANGED <<documents, questionRows, vectorStore, nextDocId, file,
                   faults, faultsSeen, callOk, callThrew>>
    /\ UNCHANGED otherVars

\* const response = await this.openai.invoke(formattedPrompt), the parse and
\* the filter of the chunk, and the loop up to the next oracle call
Invoke(d) ==
    /\ pc[d] = "invoke"
    /\ callOk' = [callOk EXCEPT ![d] = @ \cup {ci[d]}]
    /\ Continue(d, NextCall(splitDocs[d], ci[d] + 1),
                questions[d] \o ChunkQuestions(splitDocs[d][ci[d]].resp), <<>>)
    /\ UNCHANGED <<documents, questionRows, tempFiles, vectorStore, nextDocId,
                   file, faults, faultsSeen, callThrew>>
    /\ UNCHANGED otherVars

\* the oracle call of the chunk throws (timeout, network, credential, quota):
\* catch (chunkError) logs it and the loop goes on
InvokeThrow(d) ==
    /\ pc[d] = "invoke"
    /\ CanFault
    /\ \E k \in {"chatThrow", "chatReject"} : Fault(d, k)
    /\ callThrew' = [callThrew EXCEPT ![d] = @ \cup {ci[d]}]
    /\ Continue(d, AfterChunkError(splitDocs[d], ci[d]), questions[d], <<>>)
    /\ UNCHANGED <<documents, questionRows, tempFiles, vectorStore, nextDocId,
                   file, callOk>>
    /\ UNCHANGED otherVars

\* the oracle call of the chunk never settles: no timeout is set on the chat
\* model and nothing races the await, so the run stays suspended in it
InvokeHang(d) ==
    /\ pc[d] = "invoke"
    /\ pc' = [pc EXCEPT ![d] = "hung"]
    /\ UNCHANGED <<documents, questionRows, processingStatus, tempFiles,
                   vectorStore, nextDocId, file, splitDocs, ci, questions,
                   pending, thrown, faults, statusLog, faultsSeen, callOk,
                   callThrew>>
    /\ UNCHANGED otherVars

\* db.insert(questions).values({...}) of routes.ts: the row of question q,
\* number i of its run (i is history, not a column)
QuestionRow(d, q, i) ==
    [documentId |-> d, text |-> q.text.s, answer |-> q.answer.s,
     confidence |-> q.confidence.v, sourceDocument |-> q.sourceDocument.s,
     type |-> q.type.s, idx |-> i]

\* one insert of the save step comes back; the rows get their serial ids in
\* the order the inserts execute.  document_id references documents.id, so
\* the insert fails if the document is gone.  The run resumes from
\* Promise.all when the last insert has succeeded or the first has failed.
InsertQuestion(d, i) ==
    /\ i \in pending[d]
    /\ pending' = [pending EXCEPT ![d] = @ \ {i}]
    /\ IF documents[d].exists
       THEN /\ questionRows' =
                 Append(questionRows, QuestionRow(d, questions[d][i], i))
            /\ pc' = [pc EXCEPT ![d] =
                  IF @ = "save" /\ AllSettled(pending'[d]) THEN "flip" ELSE @]
            /\ UNCHANGED <<processingStatus, statusLog, thrown>>
       ELSE /\ questionRows' = questionRows
            /\ IF pc[d] = "save"
               THEN Catch(d, ErrForeignKey, <<>>)
               ELSE UNCHANGED <<pc, processingStatus, statusLog, thrown>>
    /\ UNCHANGED <<documents, tempFiles, vectorStore, nextDocId, file,
                   splitDocs, ci, questions, faults, faultsSeen, callOk, callThrew>>
    /\ UNCHANGED otherVars

\* one insert of the save step throws (the database is unreachable)
InsertThrow(d, i) ==
    /\ i \in pending[d]
    /\ CanFault
    /\ Fault(d, "db")
    /\ pending' = [pending EXCEPT ![d] = @ \ {i}]
    /\ IF pc[d] = "save"
       THEN Catch(d, ErrDb, <<>>)
       ELSE UNCHANGED <<pc, processingStatus, statusLog, thrown>>
    /\ UNCHANGED <<documents, questionRows, tempFiles, vectorStore, nextDocId,
                   file, splitDocs, ci, questions, callOk, callThrew>>
    /\ UNCHANGED otherVars

\* await db.update(documents).set({ status: "processed" }) comes back (it
\* updates no row if the document is gone), then the complete status
FlipThenThrow(d) ==
    /\ pc[d] = "flip"
    /\ documents' = [documents EXCEPT ![d] =
          IF @.exists THEN [@ EXCEPT !.status = "processed"] ELSE @]
    /\ Catch(d, ErrDb, <<StComplete>>)
    /\ UNCHANGED <<questionRows, tempFiles, vectorStore, nextDocId, file,
                   splitDocs, ci, questions, pending, faults,
                   faultsSeen, callOk, callThrew>>
    /\ UNCHANGED otherVars
Flip(d) ==
    /\ pc[d] = "flip"
    /\ documents' = [documents EXCEPT ![d] =
          IF @.exists THEN [@ EXCEPT !.status = "processed"] ELSE @]
    /\ SetStatus(d, <<StComplete>>)
    /\ pc' = [pc EXCEPT ![d] = "done"]
    /\ UNCHANGED <<questionRows, tempFiles, vectorStore, nextDocId, file,
                   splitDocs, ci, questions, pending, thrown, faults,
                   faultsSeen, callOk, callThrew>>
    /\ UNCHANGED otherVars

\* the update to processed throws after the complete status was written
FlipThrowAfterComplete(d) ==
    /\ pc[d] = "flip"
    /\ CanFault
    /\ Fault(d, "db")
    /\ Catch(d, ErrDb, <<StComplete>>)
    /\ UNCHANGED <<documents, questionRows, tempFiles, vectorStore, nextDocId,
                   file, splitDocs, ci, questions, pending, callOk, callThrew>>
    /\ UNCHANGED otherVars

\* the update to processed throws
FlipThrow(d) ==
    /\ pc[d] = "flip"
    /\ CanFault
    /\ Fault(d, "db")
    /\ Catch(d, ErrDb, <<>>)
    /\ UNCHANGED <<documents, questionRows, tempFiles, vectorStore, nextDocId,
                   file, splitDocs, ci, questions, pending, callOk, callThrew>>
    /\ UNCHANGED otherVars

\* await db.update(documents).set({ status: "error", metadata: { error } })
ErrFlip(d) ==
    /\ pc[d] = "errflip"
    /\ documents' = [documents EXCEPT ![d] =
          IF @.exists
          THEN [@ EXCEPT !.status = "error", !.error = ErrorMessage(thrown[d])]
          ELSE @]
    /\ pc' = [pc EXCEPT ![d] = "done"]
    /\ UNCHANGED <<questionRows, processingStatus, tempFiles, vectorStore,
                   nextDocId, file, splitDocs, ci, questions, pending, thrown,
                   faults, statusLog, faultsSeen, callOk, callThrew>>
    /\ UNCHANGED otherVars

\* the update to error throws: the outer catch logs and rethrows, the
\* .catch of the upload route logs
ErrFlipThrow(d) ==
    /\ pc[d] = "errflip"
    /\ CanFault
    /\ Fault(d, "db")
    /\ pc' = [pc EXCEPT ![d] = "done"]
    /\ UNCHANGED <<documents, questionRows, processingStatus, tempFiles,
                   vectorStore, nextDocId, file, splitDocs, ci, questions,
                   pending, thrown, statusLog, callOk, callThrew>>
    /\ UNCHANGED otherVars

\* document_id references documents.id: a document some question row
\* references cannot be deleted
ReferencedNever(d) == FALSE
Referenced(d) == \E k \in 1..Len(questionRows) : questionRows[k].documentId = d

\* DELETE /api/documents/:id on an existing document.  The delete throws
\* (and changes nothing) while question rows reference the document.
DeleteDocument(d) ==
    /\ documents[d].exists
    /\ ~Referenced(d)
    /\ documents' = [documents EXCEPT ![d] = NoDoc]
    /\ UNCHANGED <<questionRows, processingStatus, tempFiles, vectorStore,
                   nextDocId, pc, file, splitDocs, ci, questions, pending,
                   thrown, faults, statusLog, faultsSeen, callOk, callThrew>>
    /\ UNCHANGED otherVars

\* ------------------------------------------------------- context library
\* context_id references contexts(id): an insert for an entry that is gone
\* is refused
ForeignKeyUnchecked(id) == TRUE
ForeignKeyHolds(id) == contexts[id].exists

\* POST /api/contexts up to its first store: the row is inserted, the
\* content is split and the two lists are built.
CreateContext(content) ==
    /\ Registered
    /\ nextCtxId \in CtxIds
    /\ LET c == nextCtxId
           work == IngestWork(content) IN
       /\ contexts' = [contexts EXCEPT ![c] =
              [exists |-> TRUE, content |-> content, type |-> "text"]]
       /\ nextCtxId' = c + 1
       /\ ingest' = [ingest EXCEPT ![c] =
              [pc |-> IF work = <<>> THEN "done" ELSE "run", todo |-> work]]
    /\ UNCHANGED <<questionEmbeddings, answerEmbeddings, deleting>>
    /\ UNCHANGED <<runVars, faults, apiKey, started, reply, search, ctxUpload, rejected, query>>

\* await embeddingsService.storeQuestionEmbedding / storeAnswerEmbedding for
\* the next unit: the embedding is computed and the row inserted; when the
\* insert is refused the catch of the route answers 500 and the loops end.
StoreEmbedding(c) ==
    /\ ingest[c].pc = "run"
    /\ LET u == Head(ingest[c].todo)
           rest == Tail(ingest[c].todo) IN
       IF ForeignKeyHolds(c)
       THEN /\ questionEmbeddings' =
                 IF u.table = "question"
                 THEN Append(questionEmbeddings, EmbeddingRow(c, u.text))
                 ELSE questionEmbeddings
            /\ answerEmbeddings' =
                 IF u.table = "answer"
                 THEN Append(answerEmbeddings, EmbeddingRow(c, u.text))
                 ELSE answerEmbeddings
            /\ ingest' = [ingest EXCEPT ![c] =
                   [pc |-> IF rest = <<>> THEN "done" ELSE "run",
                    todo |-> rest]]
       ELSE /\ ingest' = [ingest EXCEPT ![c].pc = "failed"]
            /\ UNCHANGED <<questionEmbeddings, answerEmbeddings>>
    /\ UNCHANGED <<contexts, nextCtxId, deleting>>
    /\ UNCHANGED <<runVars, faults, apiKey, started, reply, search, ctxUpload, rejected, query>>

\* embedQuery or the insert throws
StoreEmbeddingThrow(c) ==
    /\ ingest[c].pc = "run"
    /\ CanFault
    /\ faults' = faults + 1
    /\ ingest' = [ingest EXCEPT ![c].pc = "failed"]
    /\ UNCHANGED <<contexts, nextCtxId, questionEmbeddings, answerEmbeddings,
                   deleting>>
    /\ UNCHANGED <<runVars, apiKey, started, reply, search, ctxUpload, rejected, query>>

\* DELETE /api/contexts/:id for an entry that is there (for one that is not,
\* the three deletes match no row), first delete of deleteContextEmbeddings
DeleteQuestionEmbeddings(c) ==
    /\ Registered
    /\ contexts[c].exists
    /\ deleting[c] \in {"idle", "failed"}
    /\ questionEmbeddings' = DeleteOwned(questionEmbeddings, c)
    /\ deleting' = [deleting EXCEPT ![c] = "answers"]
    /\ UNCHANGED <<contexts, nextCtxId, answerEmbeddings, ingest>>
    /\ UNCHANGED <<runVars, faults, apiKey, started, reply, search, ctxUpload, rejected, query>>

\* second delete of deleteContextEmbeddings
DeleteAnswerEmbeddings(c) ==
    /\ deleting[c] = "answers"
    /\ answerEmbeddings' = DeleteOwned(answerEmbeddings, c)
    /\ deleting' = [deleting EXCEPT ![c] = "context"]
    /\ UNCHANGED <<contexts, nextCtxId, questionEmbeddings, ingest>>
    /\ UNCHANGED <<runVars, faults, apiKey, started, reply, search, ctxUpload, rejected, query>>

\* await db.delete(contexts).where(eq(contexts.id, id)); both embedding
\* tables reference contexts(id) ON DELETE CASCADE
DeleteContextRow(c) ==
    /\ deleting[c] = "context"
    /\ contexts' = [contexts EXCEPT ![c] = NoContext]
    /\ questionEmbeddings' = DeleteOwned(questionEmbeddings, c)
    /\ answerEmbeddings' = DeleteOwned(answerEmbeddings, c)
    /\ deleting' = [deleting EXCEPT ![c] = "done"]
    /\ UNCHANGED <<nextCtxId, ingest>>
    /\ UNCHANGED <<runVars, faults, apiKey, started, reply, search, ctxUpload, rejected, query>>

\* the second or the third delete throws: the route answers 500
DeleteContextThrow(c) ==
    /\ deleting[c] \in {"answers", "context"}
    /\ CanFault
    /\ faults' = faults + 1
    /\ deleting' = [deleting EXCEPT ![c] = "failed"]
    /\ UNCHANGED <<contexts, nextCtxId, questionEmbeddings, answerEmbeddings,
                   ingest>>
    /\ UNCHANGED <<runVars, apiKey, started, reply, search, ctxUpload, rejected, query>>

ContextStep(c) ==
    \/ StoreEmbedding(c)
    \/ StoreEmbeddingThrow(c)
    \/ DeleteQuestionEmbeddings(c)
    \/ DeleteAnswerEmbeddings(c)
    \/ DeleteContextRow(c)
    \/ DeleteContextThrow(c)

\* ------------------------------------------------------ similarity search
MaxLimit == 2
\* req.body.limit is handed to the statement as it came: Postgres refuses
\* a negative LIMIT
Limits == -1..MaxLimit
Queries == {<<"a">>, <<"b">>}
SearchTypes == {"questions", "answers", "both"}

\* 1 - (embedding <=> queryEmbedding): the cosine similarity of the
\* oracle's vectors for the two texts, in hundredths; the vector of a text
\* is a function of the text, here of the characters it holds
Chars(text) == {text[k] : k \in 1..Len(text)}
Similarity(q, text) ==
    IF Chars(q) \cup Chars(text) = {} THEN 0
    ELSE (100 * Cardinality(Chars(q) \cap Chars(text)))
             \div Cardinality(Chars(q) \cup Chars(text))

\* ORDER BY embedding <=> queryEmbedding: a row stays before another when
\* its distance is not greater, that is its similarity not smaller
BeforeReversed(q, a, b) == Similarity(q, a.text) <= Similarity(q, b.text)
Before(q, a, b) == Similarity(q, a.text) >= Similarity(q, b.text)

RECURSIVE InsertOrdered(_, _, _)
InsertOrdered(q, row, sorted) ==
    IF sorted = <<>> THEN <<row>>
    ELSE IF Before(q, sorted[1], row)
    THEN <<sorted[1]>> \o InsertOrdered(q, row, Tail(sorted))
    ELSE <<row>> \o sorted

RECURSIVE OrderByDistance(_, _)
OrderByDistance(q, rows) ==
    IF rows = <<>> THEN <<>>
    ELSE InsertOrdered(q, rows[Len(rows)],
                       OrderByDistance(q, SubSeq(rows, 1, Len(rows) - 1)))

\* LIMIT limit
Limit(rows, limit) ==
    SubSeq(rows, 1, IF limit < Len(rows) THEN limit ELSE Len(rows))

\* findSimilarQuestions / findSimilarAnswers over the rows of their table:
\* the statement, then result.rows.map to text and similarity
FindSimilar(table, q, limit) ==
    LET rows == Limit(OrderByDistance(q, table), limit) IN
    [k \in 1..Len(rows) |->
        [text |-> rows[k].text, similarity |-> Similarity(q, rows[k].text)]]

\* POST /api/search/similar up to the first await
SearchStart(q, type, limit) ==
    /\ Registered
    /\ search.stage \in {"none", "done", "failed"}
    /\ search' = [NoSearch EXCEPT
                     !.stage = IF type = "answers" THEN "answers"
                               ELSE "questions",
                     !.type = type, !.limit = limit, !.query = q]
    /\ UNCHANGED <<runVars, faults, apiKey, started, reply, ctxUpload,
                   rejected, query, ctxVars>>

\* results.questions = await findSimilarQuestions(query, limit)
SearchQuestions ==
    /\ search.stage = "questions"
    /\ search' =
         IF search.limit < 0
         THEN [search EXCEPT !.stage = "failed", !.code = 500]
         ELSE [search EXCEPT
                  !.questions =
                      FindSimilar(questionEmbeddings, search.query,
                                  search.limit),
                  !.stage = IF search.type = "both" THEN "answers"
                            ELSE "done",
                  !.code = IF search.type = "both" THEN 0 ELSE 200]
    /\ UNCHANGED <<runVars, faults, apiKey, started, reply, ctxUpload,
                   rejected, query, ctxVars>>

\* results.answers = await findSimilarAnswers(query, limit); res.json
SearchAnswers ==
    /\ search.stage = "answers"
    /\ search' =
         IF search.limit < 0
         THEN [search EXCEPT !.stage = "failed", !.code = 500]
         ELSE [search EXCEPT
                  !.answers =
                      FindSimilar(answerEmbeddings, search.query,
                                  search.limit),
                  !.stage = "done", !.code = 200]
    /\ UNCHANGED <<runVars, faults, apiKey, started, reply, ctxUpload,
                   rejected, query, ctxVars>>

\* embedQuery or the statement throws: 500, no result is sent
SearchThrow ==
    /\ search.stage \in {"questions", "answers"}
    /\ CanFault
    /\ faults' = faults + 1
    /\ search' = [search EXCEPT !.stage = "failed", !.code = 500,
                                !.questions = <<>>, !.answers = <<>>]
    /\ UNCHANGED <<runVars, apiKey, started, reply, ctxUpload, rejected,
                   query, ctxVars>>

SearchStep ==
    \/ SearchQuestions
    \/ SearchAnswers
    \/ SearchThrow

\* docs.map(doc => doc.pageContent).join("\n\n")
RECURSIVE JoinPages(_)
JoinPages(docs) ==
    IF docs = <<>> THEN <<>>
    ELSE IF Len(docs) = 1 THEN docs[1].text
    ELSE docs[1].text \o <<"\n", "\n">> \o JoinPages(Tail(docs))

\* the value of processor.vectorStore after a library upload built it
LibraryStore == 3

\* POST /api/contexts/upload with a file multer accepts, up to the first
\* await of processor.processDocument
UploadContext(f) ==
    /\ Registered
    /\ Accepts(f)
    /\ ctxUpload.pc = "idle"
    /\ ctxUpload' = [NoUpload EXCEPT !.pc = "write", !.file = f]
    /\ UNCHANGED <<runVars, faults, apiKey, started, reply, search, rejected,
                   query, ctxVars>>

\* await fs.writeFile(tempFilePath, file.buffer)
UploadWriteFile ==
    /\ ctxUpload.pc = "write"
    /\ tempFiles' = [tempFiles EXCEPT ![ctxUpload.file.name] =
                         Bytes(ctxUpload.file)]
    /\ ctxUpload' = [ctxUpload EXCEPT !.pc = "load"]
    /\ UNCHANGED <<documents, questionRows, processingStatus, vectorStore,
                   nextDocId, pc, file, splitDocs, ci, questions, pending,
                   thrown, statusLog, faultsSeen, callOk, callThrew>>
    /\ UNCHANGED <<faults, apiKey, started, reply, search, rejected, query,
                   ctxVars>>

\* the loader of the file's type and the splitter
UploadLoad ==
    /\ ctxUpload.pc = "load"
    /\ LET f == ctxUpload.file
           b == tempFiles[f.name] IN
       ctxUpload' =
           IF ~HasLoader(f.mimetype)
           THEN [ctxUpload EXCEPT !.pc = "unlink", !.thrown = ErrUnsupported]
           ELSE IF ~b.present
           THEN [ctxUpload EXCEPT !.pc = "unlink", !.thrown = ErrNoEntry]
           ELSE IF b.corrupt
           THEN [ctxUpload EXCEPT !.pc = "unlink", !.thrown = ErrCorrupt]
           ELSE [ctxUpload EXCEPT !.pc = "embed",
                                  !.docs = Extracted(f.mimetype, b)]
    /\ UNCHANGED <<runVars, faults, apiKey, started, reply, search, rejected,
                   query, ctxVars>>

\* this.vectorStore = await MemoryVectorStore.fromDocuments(...)
UploadEmbed ==
    /\ ctxUpload.pc = "embed"
    /\ vectorStore' = LibraryStore
    /\ ctxUpload' = [ctxUpload EXCEPT !.pc = "unlink"]
    /\ UNCHANGED <<documents, questionRows, processingStatus, tempFiles,
                   nextDocId, pc, file, splitDocs, ci, questions, pending,
                   thrown, statusLog, faultsSeen, callOk, callThrew>>
    /\ UNCHANGED <<faults, apiKey, started, reply, search, rejected, query,
                   ctxVars>>

\* fromDocuments rejects
UploadEmbedReject ==
    /\ ctxUpload.pc = "embed"
    /\ CanFault
    /\ faults' = faults + 1
    /\ ctxUpload' = [ctxUpload EXCEPT !.pc = "unlink", !.thrown = ErrQuotaRaw]
    /\ UNCHANGED <<runVars, apiKey, started, reply, search, rejected, query,
                   ctxVars>>

\* finally: fs.unlink(tempFilePath); an error goes on to the catch of the
\* route, which answers 500
UploadUnlink ==
    /\ ctxUpload.pc = "unlink"
    /\ tempFiles' =
         AfterFinally(tempFiles, ctxUpload.file.name, ctxUpload.thrown)
    /\ ctxUpload' = [ctxUpload EXCEPT
                         !.pc = IF ctxUpload.thrown = "" THEN "insert"
                                ELSE "failed"]
    /\ UNCHANGED <<documents, questionRows, processingStatus, vectorStore,
                   nextDocId, pc, file, splitDocs, ci, questions, pending,
                   thrown, statusLog, faultsSeen, callOk, callThrew>>
    /\ UNCHANGED <<faults, apiKey, started, reply, search, rejected, query,
                   ctxVars>>

\* db.insert(contexts) of the extracted text, type "document", and
\* res.json(context): the route stores no embedding
UploadInsert ==
    /\ ctxUpload.pc = "insert"
    /\ nextCtxId \in CtxIds
    /\ contexts' = [contexts EXCEPT ![nextCtxId] =
           [exists |-> TRUE, content |-> JoinPages(ctxUpload.docs),
            type |-> "document"]]
    /\ nextCtxId' = nextCtxId + 1
    /\ ctxUpload' = [ctxUpload EXCEPT !.pc = "done"]
    /\ UNCHANGED <<questionEmbeddings, answerEmbeddings, ingest, deleting>>
    /\ UNCHANGED <<runVars, faults, apiKey, started, reply, search, rejected,
                   query>>

\* the insert throws
UploadInsertThrow ==
    /\ ctxUpload.pc = "insert"
    /\ CanFault
    /\ faults' = faults + 1
    /\ ctxUpload' = [ctxUpload EXCEPT !.pc = "failed", !.thrown = ErrDb]
    /\ UNCHANGED <<runVars, apiKey, started, reply, search, rejected, query,
                   ctxVars>>

UploadStep ==
    \/ UploadWriteFile
    \/ UploadLoad
    \/ UploadEmbed
    \/ UploadEmbedReject
    \/ UploadUnlink
    \/ UploadInsert
    \/ UploadInsertThrow

\* POST /api/contexts/scrape with a valid url: the page is fetched, its
\* text inserted as an entry of type "website", and the entry returned; the
\* route stores no embedding
ScrapeContext(content) ==
    /\ Registered
    /\ nextCtxId \in CtxIds
    /\ contexts' = [contexts EXCEPT ![nextCtxId] =
           [exists |-> TRUE, content |-> content, type |-> "website"]]
    /\ nextCtxId' = nextCtxId + 1
    /\ reply' = [op |-> "scrape", id |-> nextCtxId, code |-> 200]
    /\ UNCHANGED <<questionEmbeddings, answerEmbeddings, ingest, deleting>>
    /\ UNCHANGED <<runVars, faults, apiKey, started, search, ctxUpload,
                   rejected, query>>

\* the fetch or the insert throws: 500 "Failed to scrape website"
ScrapeThrow ==
    /\ Registered
    /\ CanFault
    /\ faults' = faults + 1
    /\ reply' = [op |-> "scrape", id |-> 0, code |-> 500]
    /\ UNCHANGED <<runVars, apiKey, started, search, ctxUpload, rejected,
                   query, ctxVars>>

\* DELETE /api/documents/:id for an id no row has: the delete matches no
\* row, does not throw, and the route answers { success: true }
DeleteDocumentMissing(d) ==
    /\ Registered
    /\ ~documents[d].exists
    /\ reply' = [op |-> "deleteDocument", id |-> d, code |-> 200]
    /\ UNCHANGED <<runVars, faults, apiKey, started, search, ctxUpload,
                   rejected, query, ctxVars>>

\* DELETE /api/contexts/:id for an id no row has: the two deletes of
\* deleteContextEmbeddings and the delete of the entry match no row and the
\* route answers { success: true }
DeleteContextMissing(c) ==
    /\ Registered
    /\ ~contexts[c].exists
    /\ questionEmbeddings' = DeleteOwned(questionEmbeddings, c)
    /\ answerEmbeddings' = DeleteOwned(answerEmbeddings, c)
    /\ reply' = [op |-> "deleteContext", id |-> c, code |-> 200]
    /\ UNCHANGED <<contexts, nextCtxId, ingest, deleting>>
    /\ UNCHANGED <<runVars, faults, apiKey, started, search, ctxUpload,
                   rejected, query>>

\* --------------------------------------------------------- specifications
RunStep(d) ==
    \/ WriteFile(d)
    \/ WriteFileThrow(d)
    \/ Load(d)
    \/ Embed(d)
    \/ EmbedReject(d)
    \/ Unlink(d)
    \/ Invoke(d)
    \/ InvokeThrow(d)
    \/ \E i \in pending[d] : InsertQuestion(d, i)
    \/ \E i \in pending[d] : InsertThrow(d, i)
    \/ Flip(d)
    \/ FlipThrow(d)
    \/ ErrFlip(d)
    \/ ErrFlipThrow(d)

\* Several documents, uploaded and processed concurrently, and deleted.
Next ==
    \/ \E f \in Files : Upload(f)
    \/ \E d \in DocIds : RunStep(d)
    \/ \E d \in DocIds : DeleteDocument(d)

Spec == Init /\ [][Next]_vars

\* One document with any chunk sequence, processed alone.
NextSingle ==
    \/ \E f \in SingleFiles : nextDocId = 1 /\ Upload(f)
    \/ \E d \in DocIds : RunStep(d)

SpecSingle == Init /\ [][NextSingle]_vars

\* One document, processed alone, that may be deleted at any moment.
NextDelete ==
    \/ NextSingle
    \/ \E d \in DocIds : DeleteDocument(d)

SpecDelete == Init /\ [][NextDelete]_vars

\* One document whose every call returns or throws: a run that can take a
\* step takes one.
SpecSingleFair == SpecSingle /\ \A d \in DocIds : WF_vars(RunStep(d))

\* One document whose oracle calls return, throw or never settle.
NextHang ==
    \/ NextSingle
    \/ \E d \in DocIds : InvokeHang(d)

SpecHang ==
    Init /\ [][NextHang]_vars /\ \A d \in DocIds : WF_vars(RunStep(d))

\* One upload of any file, accepted or turned away.
IntakeFiles ==
    Files \cup RejectedFiles \cup
    {TypedFile("rfi.docx", Pdf, MaxFileSize, FALSE, <<cTwo>>)}

NextIntake ==
    \/ \E f \in IntakeFiles : nextDocId = 1 /\ Upload(f)
    \/ \E f \in IntakeFiles : UploadRejected(f)
    \/ \E d \in DocIds : RunStep(d)

SpecIntake == Init /\ [][NextIntake]_vars

\* One document, a workbook of one or more sheets.
NextSheets ==
    \/ \E f \in Workbooks : nextDocId = 1 /\ Upload(f)
    \/ \E d \in DocIds : RunStep(d)

SpecSheets == Init /\ [][NextSheets]_vars

\* A process started over a database an earlier process has left: the map
\* is empty, the first document, or both, are there in any durable status.
DurableRows ==
    {[exists |-> TRUE, status |-> "processing", error |-> ""],
     [exists |-> TRUE, status |-> "processed", error |-> ""],
     [exists |-> TRUE, status |-> "error", error |-> ErrCorrupt],
     [exists |-> TRUE, status |-> "error", error |-> MsgAuth]}

InitRestart ==
    /\ InitProcess
    /\ documents \in [DocIds -> DurableRows \cup {NoDoc}]
    /\ documents[1].exists
    /\ nextDocId = IF documents[2].exists THEN 3 ELSE 2

NextRestart ==
    \/ \E f \in Files : Upload(f)
    \/ \E d \in DocIds : RunStep(d)
    \/ QueryNoId
    \/ \E d \in DocIds : QuerySelect(d)
    \/ QueryRespond

SpecRestart == InitRestart /\ [][NextRestart]_vars

\* The context library: entries are created, ingested and deleted.
NextContext ==
    \/ \E content \in Contents : CreateContext(content)
    \/ \E c \in CtxIds : ContextStep(c)

SpecContext == Init /\ [][NextContext]_vars

\* The process from its start, with or without the key: one upload and its
\* run beside one entry of the context library.
NextServer ==
    \/ \E f \in Files : nextDocId = 1 /\ Upload(f)
    \/ \E d \in DocIds : RunStep(d)
    \/ \E content \in Contents : nextCtxId = 1 /\ CreateContext(content)
    \/ \E c \in CtxIds : ContextStep(c)

SpecServer == Init /\ [][NextServer]_vars

\* One library entry, created and deleted, and similarity searches.
NextSearch ==
    \/ \E content \in Contents : nextCtxId = 1 /\ CreateContext(content)
    \/ \E c \in CtxIds : ContextStep(c)
    \/ \E q \in Queries, type \in SearchTypes, limit \in Limits :
           SearchStart(q, type, limit)
    \/ SearchStep

SpecSearch == Init /\ [][NextSearch]_vars

\* The three routes that create library entries, and the deletion.
LibraryFiles ==
    {File("rfi.docx", FALSE, <<cTwo, cShort>>), File("rfi.docx", TRUE, <<>>),
     Workbook(<<Sheet("Pricing", <<cTwo>>)>>)}
NextLibrary ==
    \/ \E content \in Contents : nextCtxId = 1 /\ CreateContext(content)
    \/ \E c \in CtxIds : ContextStep(c)
    \/ \E f \in LibraryFiles : nextCtxId = 1 /\ UploadContext(f)
    \/ UploadStep
    \/ \E content \in Contents : nextCtxId = 1 /\ ScrapeContext(content)
    \/ ScrapeThrow

SpecLibrary == Init /\ [][NextLibrary]_vars

\* One document and one library entry, with status queries and deletes
\* that name ids with and without a row.
NextNotFound ==
    \/ \E f \in Files : nextDocId = 1 /\ Upload(f)
    \/ \E d \in DocIds : RunStep(d)
    \/ \E d \in DocIds : DeleteDocument(d)
    \/ \E d \in DocIds : DeleteDocumentMissing(d)
    \/ \E d \in DocIds : QuerySelect(d)
    \/ QueryRespond
    \/ nextCtxId = 1 /\ CreateContext(<<"a", "?">>)
    \/ \E c \in CtxIds : ContextStep(c)
    \/ \E c \in CtxIds : DeleteContextMissing(c)

SpecNotFound == Init /\ [][NextNotFound]_vars


\* ----------------------------------------------------- shared vocabulary
Last(sq) == sq[Len(sq)]
Range(sq) == {sq[k] : k \in 1..Len(sq)}
Steps == <<"preparation", "extraction", "questions", "analysis", "complete">>
StepIndex(step) == CHOOSE k \in 1..Len(Steps) : Steps[k] = step
Terminal(step) == step \in {"complete", "error"}
RunDone(d) == pc[d] = "done" /\ pending[d] = {}
RunFailed(d) == processingStatus[d].currentStep = "error"
\* extractQuestions has returned to the run
ExtractReturned(d) ==
    \E k \in 1..Len(statusLog[d]) : statusLog[d][k].currentStep = "analysis"
RowsOf(d) == SelectSeq(questionRows, LAMBDA r : r.documentId = d)

\* ------------------------------------------------------------------ C1
\* C1: the statuses written for a document start at preparation; each
\* change of currentStep goes to the next step of preparation, extraction,
\* questions, analysis, complete, or from a non-terminal step to error; and
\* nothing is written after complete or error.  The map holds the last
\* status written.
C1_StepOrder ==
    \A d \in DocIds :
       LET log == statusLog[d] IN
       /\ log # <<>> =>
            /\ log[1].currentStep = "preparation"
            /\ processingStatus[d] = Last(log)
       /\ \A k \in 1..(Len(log) - 1) :
            LET a == log[k].currentStep
                b == log[k + 1].currentStep IN
            /\ ~Terminal(a)
            /\ \/ b = a
               \/ b = "error"
               \/ b # "error" /\ StepIndex(b) = StepIndex(a) + 1

\* C1 witness: one run has gone through all five steps to complete and
\* another has failed from the analysis step.
C1_Witness ==
    \E d1, d2 \in DocIds :
       /\ Len(statusLog[d1]) = 6
       /\ processingStatus[d1].currentStep = "complete"
       /\ Len(statusLog[d2]) = 6
       /\ statusLog[d2][5].currentStep = "analysis"
       /\ processingStatus[d2].currentStep = "error"

\* ------------------------------------------------------------------ C2
\* C2: the progress of the statuses written for a document never decreases,
\* also when the run fails after progress has reached 25, 50 or 75.
C2_ProgressMonotonic ==
    \A d \in DocIds :
       \A k \in 1..(Len(statusLog[d]) - 1) :
          statusLog[d][k + 1].progress >= statusLog[d][k].progress

\* ------------------------------------------------------------------ C3
\* C3: if the durable status of a document is processed, every question its
\* extraction returned has its row in the questions table.
C3_ProcessedHasQuestions ==
    \A d \in DocIds :
       (documents[d].exists /\ documents[d].status = "processed") =>
          \A i \in 1..Len(questions[d]) :
             \E k \in 1..Len(questionRows) :
                questionRows[k] = QuestionRow(d, questions[d][i], i)

\* C3 witness: a processed document whose two questions were inserted in
\* the reverse of their extraction order.
C3_Witness ==
    \E d \in DocIds :
       /\ documents[d].status = "processed"
       /\ Len(questions[d]) = 2
       /\ Len(RowsOf(d)) = 2
       /\ RowsOf(d)[1].idx = 2


\* ------------------------------------------------------------------ C4
\* what extractQuestions returns for the chunks of a document processed
\* alone with no call throwing
RECURSIVE ExtractAlone(_)
ExtractAlone(chunks) ==
    IF chunks = <<>> THEN <<>>
    ELSE LET c == chunks[Len(chunks)] IN
         ExtractAlone(SubSeq(chunks, 1, Len(chunks) - 1)) \o
         (IF NeedsCall(c) THEN ChunkQuestions(c.resp) ELSE <<>>)

PersistedAlone(d) ==
    LET qs == ExtractAlone(file[d].chunks) IN
    {QuestionRow(d, qs[i], i) : i \in 1..Len(qs)}

\* C4: of two documents of which one has a corrupt payload and the other a
\* healthy one, and whose runs met no throwing oracle or database call and
\* no deletion, the corrupt one ends in error and the healthy one ends in
\* complete with exactly the questions it gets when processed alone.
C4_Isolation ==
    \A c, h \in DocIds :
       ( /\ c # h
         /\ RunDone(c) /\ RunDone(h)
         /\ file[c].corrupt /\ ~file[h].corrupt
         /\ faultsSeen[c] = {} /\ faultsSeen[h] = {}
         /\ documents[c].exists /\ documents[h].exists )
       => /\ processingStatus[c].currentStep = "error"
          /\ processingStatus[h].currentStep = "complete"
          /\ Range(RowsOf(h)) = PersistedAlone(h)

\* the same for two files with different original names
C4_IsolationDistinctNames ==
    \A c, h \in DocIds :
       ( /\ c # h
         /\ RunDone(c) /\ RunDone(h)
         /\ file[c].corrupt /\ ~file[h].corrupt
         /\ file[c].name # file[h].name
         /\ faultsSeen[c] = {} /\ faultsSeen[h] = {}
         /\ documents[c].exists /\ documents[h].exists )
       => /\ processingStatus[c].currentStep = "error"
          /\ processingStatus[h].currentStep = "complete"
          /\ Range(RowsOf(h)) = PersistedAlone(h)

\* ------------------------------------------------------------------ C5
\* C5: when the run of a document that still exists has failed and ended,
\* the transient step is error, the durable status is error, and the
\* metadata holds the message of the transient status.
C5_ErrorInBoth ==
    \A d \in DocIds :
       (pc[d] = "done" /\ RunFailed(d) /\ documents[d].exists) =>
          /\ documents[d].status = "error"
          /\ processingStatus[d].error # ""
          /\ documents[d].error = processingStatus[d].error

\* ------------------------------------------------------------------ C6
\* C6: a run in which the embedding or the generative oracle rejected a call
\* for credential or quota reasons never reaches complete or processed, and
\* when it has ended the document is in error with a persisted message.
C6_RejectionHalts ==
    \A d \in DocIds :
       (faultsSeen[d] \cap {"embedReject", "chatReject"} # {}) =>
          /\ processingStatus[d].currentStep # "complete"
          /\ documents[d].status # "processed"
          /\ (pc[d] = "done" /\ documents[d].exists) =>
                /\ documents[d].status = "error"
                /\ documents[d].error # ""


\* ------------------------------------------------------------------ C7
\* the valid records of the chunks whose oracle call returned and whose
\* output parsed as an array, in chunk order
RECURSIVE Accumulated(_, _)
Accumulated(chunks, ok) ==
    IF chunks = <<>> THEN <<>>
    ELSE LET n == Len(chunks)
             r == chunks[n].resp IN
         Accumulated(SubSeq(chunks, 1, n - 1), ok) \o
         (IF n \in ok /\ JsonParses(r) /\ IsArray(r) /\ ~FilterThrows(r.recs)
          THEN SelectSeq(r.recs, IsValidQuestion) ELSE <<>>)

C7_WitnessProse ==
    \E d \in DocIds :
       /\ processingStatus[d].currentStep = "complete"
       /\ callOk[d] = {1, 2}
       /\ splitDocs[d][1].resp.shape = "prose"
       /\ Len(RowsOf(d)) = 2

\* ------------------------------------------------------------------ C8
ConfidenceInRange(v) == v.t = "number" /\ v.v >= 0 /\ v.v <= 100
TypeAllowed(v) == v.t = "string" /\ v.s \in {"explicit", "implicit"}

\* C8: every record extractQuestions has accumulated and every row of the
\* questions table has a numeric confidence within [0,1] and a type of
\* explicit or implicit; no record of a chunk with a confidence out of
\* range or not a number, or with another type, is among them.
C8_ConfidenceAndType ==
    /\ \A d \in DocIds :
         /\ \A i \in 1..Len(questions[d]) :
               /\ ConfidenceInRange(questions[d][i].confidence)
               /\ TypeAllowed(questions[d][i].type)
         /\ \A i \in 1..Len(splitDocs[d]) :
               \A q \in Range(splitDocs[d][i].resp.recs) :
                  (~ConfidenceInRange(q.confidence) \/ ~TypeAllowed(q.type))
                     => q \notin Range(questions[d])
    /\ \A k \in 1..Len(questionRows) :
         /\ questionRows[k].confidence \in 0..100
         /\ questionRows[k].type \in {"explicit", "implicit"}

\* C8 witness: a chunk holding records with confidence 1.01, -0.01, "0.9"
\* and type "requirement" was answered, and only its two valid records
\* were persisted.
C8_Witness ==
    \E d \in DocIds :
       /\ documents[d].status = "processed"
       /\ splitDocs[d] = <<cMixed>>
       /\ callOk[d] = {1}
       /\ Len(RowsOf(d)) = 2

\* ------------------------------------------------------------------ C9
\* C9: every record extractQuestions has accumulated has non-empty text, a
\* non-empty answer and a non-empty source citation.
C9_NonEmptyFields ==
    \A d \in DocIds :
       \A i \in 1..Len(questions[d]) :
          /\ questions[d][i].text.s # ""
          /\ questions[d][i].answer.s # ""
          /\ questions[d][i].sourceDocument.s # ""

\* ----------------------------------------------------------------- C10
\* C10: when the oracle's output for a chunk is a well-formed array wrapped
\* in prose, the valid records of that array are among the questions that
\* extractQuestions returns.
C10_WrappedArrayExtracted ==
    \A d \in DocIds :
       ExtractReturned(d) =>
          \A i \in callOk[d] :
             splitDocs[d][i].resp.shape = "wrapped" =>
                \A q \in Range(splitDocs[d][i].resp.recs) :
                   IsValidQuestion(q) => q \in Range(questions[d])

\* ----------------------------------------------------------------- C11
\* C11: a run whose document was deleted while it was in progress never
\* writes the complete status: no step of a run that is under way for a
\* document that is gone leaves complete in the map.
C11_DeletedRunNeverComplete ==
    [][\A d \in DocIds :
          (~documents[d].exists /\ pc[d] \notin {"idle", "done"}) =>
             processingStatus'[d].currentStep # "complete"]_vars

\* ----------------------------------------------------------------- C12
\* C12: when the status query has answered for an existing document that
\* had no status in the map, the step of the answer is complete for a
\* durable status of processed, error together with the stored message for
\* error, and preparation for any other value.
C12_FallbackFromDurable ==
    (query.stage = "answered" /\ query.row.exists /\ query.mapped = NoStatus)
    => /\ query.code = 200
       /\ query.row.status = "processed" =>
             query.body.currentStep = "complete"
       /\ query.row.status = "error" =>
             /\ query.body.currentStep = "error"
             /\ query.body.error = query.row.error
       /\ query.row.status \notin {"processed", "error"} =>
             query.body.currentStep = "preparation"

\* C12 witness: the query has answered from the durable row for a document
\* in error with a stored message.
C12_Witness ==
    /\ query.stage = "answered"
    /\ query.mapped = NoStatus
    /\ query.row.status = "error"
    /\ query.body.error = MsgAuth

\* C12 witness for the other two cases: answers of complete and of
\* preparation from the durable row.
C12_WitnessProcessed ==
    /\ query.stage = "answered" /\ query.mapped = NoStatus
    /\ query.row.status = "processed" /\ query.body.progress = 100

C12_WitnessProcessing ==
    /\ query.stage = "answered" /\ query.mapped = NoStatus
    /\ query.row.status = "processing" /\ query.body.progress = 25

\* ----------------------------------------------------------------- C13
\* C13: when every call returns or throws, the durable status of every
\* accepted document eventually is processed or error.
C13_RunDecides ==
    \A d \in DocIds :
       documents[d].exists ~> documents[d].status \in {"processed", "error"}

\* ----------------------------------------------------------------- C14
\* C14: a run whose oracle call for a chunk never settles still reaches a
\* terminal status.
C14_HungCallAbsorbed ==
    \A d \in DocIds :
       pc[d] = "hung" ~>
          /\ Terminal(processingStatus[d].currentStep)
          /\ documents[d].status \in {"processed", "error"}

\* ----------------------------------------------------------------- C15
\* C15: every run was started for a file of an allowed media type and of at
\* most 10 MB; for a file the intake turned away there is no document, no
\* run, no temp file and no chunk.
C15_RejectedNeverProcessed ==
    /\ \A d \in DocIds :
          pc[d] # "idle" =>
             /\ file[d].mimetype \in AllowedTypes
             /\ file[d].size <= MaxFileSize
             /\ file[d] \notin rejected
    /\ \A f \in rejected :
          /\ f.mimetype \notin AllowedTypes \/ f.size > MaxFileSize
          /\ \A d \in DocIds : pc[d] # "idle" => file[d] # f

\* C15 witness: a picture and a file over the ceiling were turned away, and
\* the one run there is belongs to a PDF of exactly 10 MB.
C15_Witness ==
    /\ \E f \in rejected : f.mimetype = Png /\ f.size <= MaxFileSize
    /\ \E f \in rejected : f.mimetype = Docx /\ f.size > MaxFileSize
    /\ pc[1] = "done" /\ file[1].mimetype = Pdf /\ file[1].size = MaxFileSize
    /\ pc[2] = "idle"

\* ----------------------------------------------------------------- C16
\* C16: for a picture (image/png) that was uploaded there is a document,
\* which has no chunks and no question rows and, once its run has ended, is
\* in error with the unsupported-format message.
C16_PngBecomesErrorDocument ==
    \A f \in rejected :
       (f.mimetype = Png /\ f.size <= MaxFileSize) =>
          \E d \in DocIds :
             /\ documents[d].exists /\ file[d] = f
             /\ splitDocs[d] = <<>> /\ RowsOf(d) = <<>>
             /\ pc[d] = "done" =>
                   /\ documents[d].status = "error"
                   /\ documents[d].error = ErrUnsupported

\* ----------------------------------------------------------------- C17
\* C17: in a process started without the oracle credential no document is
\* ever accepted, no run starts, no status is written, no context entry is
\* created and no embedding is ingested.
C17_NoKeyNothingStarts ==
    ~apiKey =>
       /\ \A d \in DocIds :
             /\ ~documents[d].exists
             /\ pc[d] = "idle"
             /\ statusLog[d] = <<>>
       /\ \A c \in CtxIds : ~contexts[c].exists /\ ingest[c].pc = "idle"
       /\ questionRows = <<>>
       /\ questionEmbeddings = <<>> /\ answerEmbeddings = <<>>
       /\ \A n \in TempNames : ~tempFiles[n].present

\* C17 witness: the process without the key, after its failed construction.
C17_Witness ==
    /\ ~apiKey
    /\ ~Registered
    /\ nextDocId = 1 /\ nextCtxId = 1

\* ----------------------------------------------------------------- C18
RowsOwned(rows, id) == SelectSeq(rows, LAMBDA r : r.contextId = id)

\* C18: once the deletion of a context entry has gone through, no row of
\* either embedding table is owned by it; and no step of the deletion of
\* one entry changes the rows any other entry owns.
C18_DeleteRemovesOwnRowsOnly ==
    /\ [](\A c \in CtxIds :
            deleting[c] = "done" =>
               /\ RowsOwned(questionEmbeddings, c) = <<>>
               /\ RowsOwned(answerEmbeddings, c) = <<>>)
    /\ [][\A c, o \in CtxIds :
            (c # o /\ deleting'[c] # deleting[c]) =>
               /\ RowsOwned(questionEmbeddings', o) =
                     RowsOwned(questionEmbeddings, o)
               /\ RowsOwned(answerEmbeddings', o) =
                     RowsOwned(answerEmbeddings, o)]_vars

\* C18 witness: the first entry was deleted after its ingestion had gone
\* through, and the second entry still owns its two rows.
C18_Witness ==
    /\ deleting[1] = "done"
    /\ ingest[1].pc = "done"
    /\ ~contexts[1].exists
    /\ contexts[2].exists
    /\ Len(RowsOwned(answerEmbeddings, 2)) = 2
    /\ Len(answerEmbeddings) = 2

\* ----------------------------------------------------------------- C19
\* C19: every row of the two embedding tables is owned by a context entry
\* that exists.
C19_NoOrphanEmbedding ==
    /\ \A k \in 1..Len(questionEmbeddings) :
          contexts[questionEmbeddings[k].contextId].exists
    /\ \A k \in 1..Len(answerEmbeddings) :
          contexts[answerEmbeddings[k].contextId].exists

\* C19 witness: an entry was deleted while its ingestion was under way (the
\* insert of its next unit was refused), and the deletion of the other
\* entry failed after its first delete, leaving it with its rows.
C19_Witness ==
    \E c, o \in CtxIds :
       /\ deleting[c] = "done"
       /\ ingest[c].pc = "failed" /\ Len(ingest[c].todo) = 1
       /\ deleting[o] = "failed"
       /\ contexts[o].exists
       /\ RowsOwned(answerEmbeddings, o) # <<>>

\* ----------------------------------------------------------------- C20
\* the trimmed, non-empty units of a content that a question mark ends, and
\* those that anything else ends
RECURSIVE UnitsFrom(_, _, _, _)
UnitsFrom(s, i, cur, acc) ==
    IF i > Len(s)
    THEN (IF Trim(cur) = <<>> THEN acc
          ELSE Append(acc, [text |-> Trim(cur), question |-> FALSE]))
    ELSE IF IsDelimiter(s[i])
    THEN UnitsFrom(s, i + 1, <<>>,
                   IF Trim(cur) = <<>> THEN acc
                   ELSE Append(acc, [text |-> Trim(cur),
                                     question |-> s[i] = "?"]))
    ELSE UnitsFrom(s, i + 1, Append(cur, s[i]), acc)

Units(content) == UnitsFrom(content, 1, <<>>, <<>>)

\* C20: when the ingestion of a context entry has gone through, each unit
\* of its content that ends in a question mark is a row of the question
\* table and not of the answer table, and every other unit is a row of the
\* answer table and not of the question table.
C20_UnitsPartitioned ==
    \A c \in CtxIds :
       (ingest[c].pc = "done" /\ contexts[c].exists /\ deleting[c] = "idle")
       => \A u \in Range(Units(contexts[c].content)) :
             LET row == EmbeddingRow(c, u.text) IN
             IF u.question
             THEN /\ row \in Range(questionEmbeddings)
                  /\ row \notin Range(answerEmbeddings)
             ELSE /\ row \in Range(answerEmbeddings)
                  /\ row \notin Range(questionEmbeddings)

\* ----------------------------------------------------------------- C25
\* C25: once the text of an uploaded spreadsheet has been extracted, every
\* sheet of the workbook is in it, each sheet's text introduced by the
\* marker line "Sheet: <name>" of that sheet.
SheetMarker(name) == <<"Sheet: ", name>>
Marked(chunk, name) == [chunk EXCEPT !.marker = SheetMarker(name)]
TextExtracted(d) ==
    /\ pc[d] \in {"embed", "invoke", "save", "flip", "done"}
    /\ thrown[d] = ""
C25_EverySheetMarked ==
    \A d \in DocIds :
        (IsExcel(file[d].mimetype) /\ TextExtracted(d)) =>
            \A i \in 1..Len(file[d].sheets) :
                \A k \in 1..Len(file[d].sheets[i].chunks) :
                    \E j \in 1..Len(splitDocs[d]) :
                        splitDocs[d][j] =
                            Marked(file[d].sheets[i].chunks[k],
                                   file[d].sheets[i].name)

\* ----------------------------------------------------------------- C27
\* C27: over the statuses written for a document, completedSteps only
\* grows: every step listed in one status is listed in the next one, the
\* transition to error included.
C27_CompletedStepsGrow ==
    \A d \in DocIds :
        \A k \in 1..(Len(statusLog[d]) - 1) :
            Range(statusLog[d][k].completedSteps) \subseteq
                Range(statusLog[d][k + 1].completedSteps)

\* ----------------------------------------------------------------- C28
\* C28: the status map is the only mutable state of the process that
\* concurrent runs share: what one run put in the processor's vector store
\* is never replaced by another run, and a run never finds the temporary
\* file it is about to write already written by another run.
C28_OnlyStatusMapShared ==
    /\ [](\A d \in DocIds :
             pc[d] = "write" => ~tempFiles[file[d].name].present)
    /\ [][\A d \in DocIds : vectorStore = d => vectorStore' = d]_vars

\* ----------------------------------------------------------------- C29
\* C29: the entry of the status map keyed by a document changes only in a
\* step of that document's own run, the catch path included; no step of a
\* run changes the entry of another document.
Stepped(d) ==
    \/ pc'[d] # pc[d]
    \/ ci'[d] # ci[d]
    \/ pending'[d] # pending[d]
C29_RunWritesOwnEntry ==
    [][\A e \in DocIds :
          processingStatus'[e] # processingStatus[e] =>
              /\ Stepped(e)
              /\ \A d \in DocIds \ {e} : ~Stepped(d)]_vars
C29_Witness ==
    /\ processingStatus[1].currentStep = "error"
    /\ processingStatus[2].currentStep = "complete"
    /\ Len(statusLog[1]) > 1

\* ----------------------------------------------------------------- C30
\* C30: for every document id at most one pipeline run is ever started:
\* the only place a run starts is the upload handler, right after the
\* insert that gave the document its fresh id.
C30_AtMostOneRun == \A d \in DocIds : started[d] <= 1
\* the first document has been deleted and the next upload took a new id
C30_Witness ==
    /\ started[1] = 1
    /\ ~documents[1].exists
    /\ started[2] = 1
    /\ pc[2] = "done"

\* ----------------------------------------------------------------- C22
\* C22: when a store of one unit of an entry has failed and the entry is
\* still there, untouched by a deletion, the units after the failed one are
\* stored all the same, each in its table.
Stored(c, u) ==
    IF u.table = "question"
    THEN \E k \in 1..Len(questionEmbeddings) :
             questionEmbeddings[k] = EmbeddingRow(c, u.text)
    ELSE \E k \in 1..Len(answerEmbeddings) :
             answerEmbeddings[k] = EmbeddingRow(c, u.text)
C22_FailureSkipsOneUnit ==
    \A c \in CtxIds :
        (ingest[c].pc = "failed" /\ contexts[c].exists /\ deleting[c] = "idle")
            => \A k \in 2..Len(ingest[c].todo) : Stored(c, ingest[c].todo[k])

\* ----------------------------------------------------------------- C23
\* C23: the creation request answers with a failure only when no row of
\* the entry is in the contexts table.
C23_FailureMeansNoRow ==
    \A c \in CtxIds : ingest[c].pc = "failed" => ~contexts[c].exists

\* ----------------------------------------------------------------- C26
\* C26: a status query, a document delete or a context delete that names
\* an id no row has is answered NotFound.
C26_MissingIdIsNotFound ==
    /\ (query.stage = "answered" /\ ~query.row.exists) => query.code = 404
    /\ reply.op \in {"deleteDocument", "deleteContext"} => reply.code = 404

\* ----------------------------------------------------------------- C21
\* C21: whichever route created an entry (direct authoring, document
\* upload, website scraping), once its request has succeeded and while the
\* entry is there, every unit of its content has an embedding row owned by
\* the entry.
RequestSucceeded(c) ==
    /\ contexts[c].exists
    /\ deleting[c] = "idle"
    /\ contexts[c].type = "text" => ingest[c].pc = "done"
HasRow(c, text) ==
    \/ \E k \in 1..Len(questionEmbeddings) :
           questionEmbeddings[k] = EmbeddingRow(c, text)
    \/ \E k \in 1..Len(answerEmbeddings) :
           answerEmbeddings[k] = EmbeddingRow(c, text)
C21_EveryEntryIngested ==
    \A c \in CtxIds :
        RequestSucceeded(c) =>
            \A k \in 1..Len(Sentences(contexts[c].content)) :
                HasRow(c, Sentences(contexts[c].content)[k])

\* ----------------------------------------------------------------- C24
\* C24: a search with limit k over a corpus returns at most k snippets,
\* each the text and similarity of a row of that corpus (a questions search
\* gives no answers and an answers search no questions), in order of
\* non-increasing similarity, and no row left out is more similar to the
\* query than a returned one.
IsTopK(res, table, q, limit) ==
    /\ Len(res) <= limit
    /\ \A i, j \in 1..Len(res) : i < j => res[i].similarity >= res[j].similarity
    /\ \E f \in [1..Len(res) -> 1..Len(table)] :
          /\ \A i, j \in 1..Len(res) : i # j => f[i] # f[j]
          /\ \A i \in 1..Len(res) :
                res[i] = [text |-> table[f[i]].text,
                          similarity |-> Similarity(q, table[f[i]].text)]
          /\ \A j \in 1..Len(table) :
                (\A i \in 1..Len(res) : f[i] # j) =>
                    \A i \in 1..Len(res) :
                        Similarity(q, table[j].text) <= res[i].similarity
PassesValidation(q) == q.element = "object" /\ IsValidQuestion(q)
RECURSIVE ValidPerRecord(_, _)
ValidPerRecord(chunks, ok) ==
    IF chunks = <<>> THEN <<>>
    ELSE LET n == Len(chunks)
             r == chunks[n].resp IN
         ValidPerRecord(SubSeq(chunks, 1, n - 1), ok) \o
         (IF n \in ok /\ JsonParses(r) /\ IsArray(r)
          THEN SelectSeq(r.recs, PassesValidation) ELSE <<>>)
C31_RecordsValidatedIndependently ==
    \A d \in DocIds :
        ExtractReturned(d) =>
            questions[d] = ValidPerRecord(splitDocs[d], callOk[d])

\* ----------------------------------------------------------------- C32
\* C32: a temporary file is there only while a call of processDocument
\* that wrote to its path has not yet reached its finally: once a call has
\* finished, by return or by throw, nothing it wrote is left.
Holds(name) ==
    \/ \E d \in DocIds :
          pc[d] \in {"load", "embed", "unlink"} /\ file[d].name = name
    \/ ctxUpload.pc \in {"load", "embed", "unlink"} /\ ctxUpload.file.name = name
C32_WitnessWrite ==
    \E d \in DocIds :
        /\ "writeThrow" \in faultsSeen[d]
        /\ pc[d] = "done"
        /\ ~tempFiles[file[d].name].present

\* ----------------------------------------------------------------- C33
\* C33: whenever a status query answers for a document, the step it gives
\* is complete exactly when the durable status of the document is
\* processed at that moment, and error exactly when it is error.
Agree(step, status) ==
    /\ step = "complete" <=> status = "processed"
    /\ step = "error" <=> status = "error"
C33_ViewsAgreeOnTerminal ==
    [][(query.stage = "selected" /\ query'.stage = "answered"
            /\ query'.code = 200)
          => Agree(query'.body.currentStep, documents[query.id].status)]_vars

\* ----------------------------------------------------------------- C34
\* C34: the durable status of a document that stays in the table changes
\* only from processing, and only to processed or to error; a processed or
\* an error document keeps its status.
C34_StatusChangesOnce ==
    [][\A d \in DocIds :
          (/\ documents[d].exists
           /\ documents'[d].exists
           /\ documents'[d].status # documents[d].status)
          => /\ documents[d].status = "processing"
             /\ documents'[d].status \in {"processed", "error"}]_vars
\* a run whose update to processed was refused has set its document to
\* error, and the other document is processed
C34_Witness ==
    \E d, e \in DocIds :
        /\ "db" \in faultsSeen[d]
        /\ pc[d] = "done"
        /\ documents[d].status = "error"
        /\ documents[e].status = "processed"

\* ----------------------------------------------------------------- C35
\* C35: a document whose durable status is error has no row in the
\* questions table.
C35_ErrorHasNoQuestions ==
    \A d \in DocIds :
        (documents[d].exists /\ documents[d].status = "error")
            => RowsOf(d) = <<>>

\* ----------------------------------------------------------------- C36
\* C36: when a run comes to read its temporary file, the file is there and
\* holds the bytes that run wrote, whatever another run has done meanwhile,
\* also when both files have the same original name.
C36_RunReadsOwnBytes ==
    \A d \in DocIds :
        pc[d] = "load" => tempFiles[file[d].name] = Bytes(file[d])

\* ----------------------------------------------------------------- C37
\* C37: every row of the questions table references a document that is in
\* the documents table, however deletions interleave with the runs.
C37_QuestionsReferenceDocuments ==
    \A k \in 1..Len(questionRows) :
        documents[questionRows[k].documentId].exists
\* a document was deleted during its run, the insert of its question was
\* refused, and the table holds the rows of the other document
C37_Witness ==
    \E d \in DocIds :
        /\ started[d] = 1
        /\ ~documents[d].exists
        /\ thrown[d] = ErrForeignKey
        /\ Len(questionRows) > 0

\* ----------------------------------------------------------------- C38
\* C38: the rows of a document, read in ascending id order as GET
\* /api/questions/:documentId returns them, are in the order extraction
\* produced the records they were made from.
C38_RowsInExtractionOrder ==
    \A d \in DocIds :
        \A k \in 1..(Len(RowsOf(d)) - 1) :
            RowsOf(d)[k].idx < RowsOf(d)[k + 1].idx

====
